---- MODULE Spec2Model ----
(***************************************************************************)
(* sockgauge: a TCP relay (proxy.rs) whose connection relays report        *)
(* lifecycle events through an unbounded mpsc mailbox to a single          *)
(* reporter actor (reporter.rs), wired together by main (main.rs).         *)
(*                                                                         *)
(* The runtime is tokio's multi-threaded one (#[tokio::main]), so the      *)
(* accept loop, the actor and every relay run in parallel: a step of one   *)
(* task is one action, and statements of one task that are separated by    *)
(* an effect another task can observe (the drop of a socket, a send into   *)
(* the mailbox) are separate actions.                                      *)
(***************************************************************************)
EXTENDS Integers, Sequences, FiniteSets, TLC

\* ------------------------------------------------------------------ bounds
\* What the peers do in one run: the connections they open, the bytes they
\* send (over all connections and directions) and the addresses they connect
\* from. A run is either a few connections from several addresses carrying
\* several bytes, or more connections from one address carrying fewer bytes,
\* or a lone connection whose failures have either of two descriptions.
MaxConns == 2
MaxBytes == 2
WideConns == 3
WideBytes == 1
LoneConns == 1
LoneBytes == 2
\* The run of the specification with fairness.
FairConns == 2
FairBytes == 1

Max(a, b) == IF a > b THEN a ELSE b
Conns == 1..Max(Max(MaxConns, LoneConns), Max(WideConns, FairConns))
\* Peer addresses (ip:port) the accepted sockets can carry.
Addrs == {"a1", "a2"}
\* Payload bytes.
Bytes == {0, 1}
\* Descriptions of an I/O failure (std::io::Error::to_string()).
IoErrors == {"reset", "damn"}

\* ------------------------------------------------------------ reporter.rs
ClientToServer == "ClientToServer"
ServerToClient == "ServerToClient"
Direction == {ClientToServer, ServerToClient}

NoError == <<>>
SocketCloseError(direction, message) == <<direction, message>>

Opened(a) == [type |-> "Opened", addr |-> a, err |-> NoError]
ClosedGracefully(a) == [type |-> "ClosedGracefully", addr |-> a, err |-> NoError]
ClosedWithError(a, e) == [type |-> "ClosedWithError", addr |-> a, err |-> e]

\* Result<(), SocketCloseError>, and the absence of one.
NoResult == <<>>
Ok == <<"Ok">>
Err(e) == <<"Err", e>>
IsError(res) == Len(res) = 2

IsClose(ev) == ev.type \in {"ClosedGracefully", "ClosedWithError"}

\* A Display whose prefix names the direction that failed.
DisplayPrefixByDirection(direction) ==
    CASE direction = ClientToServer -> "Error while forwarding client traffic to the server: "
      [] direction = ServerToClient -> "Error while forwarding server traffic to the client: "

\* impl Display for SocketCloseError: the prefix chosen by direction, then the
\* message. A string is the sequence of its pieces.
DisplayPrefix(direction) ==
    CASE direction = ClientToServer -> "Error while forwarding client traffic to the server: "
      [] direction = ServerToClient -> "Error while forwarding client traffic to the server: "

Display(e) == <<DisplayPrefix(e[1]), e[2]>>

VARIABLES
    connsLeft,       \* environment: connections the peers will still open
    bytesLeft,       \* environment: bytes the peers will still send
    peers,           \* environment: the addresses the peers connect from
    failures,        \* environment: the descriptions an I/O failure can have
    mainPc,          \* main: "bind", "accept", "join", "exitOk", "exitErr"
    handles,         \* live ReporterHandle clones (senders of the channel)
    pc,              \* relay: "unborn", "connect", "transfer", "closing", then
                     \* "done" (returned Ok) or "failed" (returned Err)
                     \* (the locals of a relay are kept while its task exists)
    addr,            \* relay: peer address of its accepted socket
    incoming,        \* relay: inbound socket "none", "open", "dropped"
    outbound,        \* relay: outbound socket "none", "open", "dropped"
    leg,             \* relay, direction: "copy", "eof", "shut"; "dropped" once
                     \* transfer has returned
    rd,              \* relay, direction: bytes read from the sending side
    wr,              \* relay, direction: bytes written to the receiving side
                     \* (both kept while the relay's task exists)
    result,          \* relay: transfer's result: NoResult, Ok or Err(e)
    stderr,          \* eprintln! lines of failed relays (their addresses)
    mailbox,         \* the unbounded channel's queue
    actorState,      \* "running", "terminated", "crashed"
    panicMsg,        \* the panic that crashed the actor, "" if none
    count,           \* ReporterActor.count (u64): its two's-complement reading,
                     \* so that 2^64 - 1, the result of 0 - 1, is -1
    connected_time,  \* keys of ReporterActor.connected_time
    log,             \* println! lines of the actor
    enqueued,        \* history: events the mailbox accepted, in order
    dequeued         \* history: events recv() returned, in order

envVars == <<connsLeft, bytesLeft, peers, failures>>
relayVars == <<pc, addr, incoming, outbound, leg, rd, wr, result>>
actorVars == <<actorState, panicMsg, count, connected_time, log, dequeued>>
vars == <<connsLeft, bytesLeft, peers, failures,
          mainPc, handles, pc, addr, incoming, outbound, leg, rd, wr, result,
          stderr, mailbox, actorState, panicMsg, count, connected_time, log,
          enqueued, dequeued>>

\* The process is running: main has not returned.
Alive == mainPc \notin {"exitOk", "exitErr"}

\* The receiving half of the channel exists: the actor neither returned from
\* run nor unwound from a panic.
ReceiverAlive == actorState = "running"

Other(d) == IF d = ClientToServer THEN ServerToClient ELSE ClientToServer

\* ------------------------------------------------------------------- init
Scenarios ==
    {[conns |-> MaxConns, bytes |-> MaxBytes, peers |-> Addrs, failures |-> {"reset"}],
     [conns |-> WideConns, bytes |-> WideBytes, peers |-> {"a1"}, failures |-> {"reset"}],
     [conns |-> LoneConns, bytes |-> LoneBytes, peers |-> {"a1"}, failures |-> IoErrors]}

FairScenarios ==
    {[conns |-> FairConns, bytes |-> FairBytes, peers |-> Addrs, failures |-> {"reset"}]}

\* The state after main has created the reporter and spawned the actor.
Start(scenarios) ==
    /\ \E s \in scenarios :
         /\ connsLeft = s.conns
         /\ bytesLeft = s.bytes
         /\ peers = s.peers
         /\ failures = s.failures
    /\ mainPc = "bind"
    /\ handles = 1
    /\ pc = [c \in Conns |-> "unborn"]
    /\ addr = [c \in Conns |-> "none"]
    /\ incoming = [c \in Conns |-> "none"]
    /\ outbound = [c \in Conns |-> "none"]
    /\ leg = [c \in Conns |-> [d \in Direction |-> "copy"]]
    /\ rd = [c \in Conns |-> [d \in Direction |-> <<>>]]
    /\ wr = [c \in Conns |-> [d \in Direction |-> <<>>]]
    /\ result = [c \in Conns |-> NoResult]
    /\ stderr = <<>>
    /\ mailbox = <<>>
    /\ actorState = "running"
    /\ panicMsg = ""
    /\ count = 0
    /\ connected_time = {}
    /\ log = <<>>
    /\ enqueued = <<>>
    /\ dequeued = <<>>

Init == Start(Scenarios)

InitFair == Start(FairScenarios)

\* ------------------------------------------------------- reporter: handle
\* A send that queues the event although the receiver is gone.
SendAlways(q, ev) == Append(q, ev)

\* ReporterHandle::report: UnboundedSender::send appends to the queue, or
\* fails when the receiver is gone; the result is discarded (let _ =).
Send(q, ev) == IF ReceiverAlive THEN Append(q, ev) ELSE q

\* -------------------------------------------------------- reporter: actor
\* The message of the expect on connected_time.remove.
NoStartTime == "No corresponding start time for socket?"

\* The outcome of ReporterActor::on_socket_closed on (count, connected_time):
\* the new count, the new key set and the panic message ("" when it returns).
\* overflowChecks is the build's setting for arithmetic overflow (a panic in
\* a debug build, wrapping in a release build); clockOk says whether
\* SystemTime::elapsed succeeded (it fails when the wall clock went back).
OnSocketClosed(cnt, ct, a, clockOk, overflowChecks) ==
    IF cnt = 0 /\ overflowChecks
    THEN [count |-> cnt, ct |-> ct, panic |-> "attempt to subtract with overflow"]
    ELSE LET n == cnt - 1
         IN IF a \notin ct
            THEN [count |-> n, ct |-> ct, panic |-> NoStartTime]
            ELSE IF ~clockOk
            THEN [count |-> n, ct |-> ct \ {a},
                  panic |-> "Error computing elapsed time?"]
            ELSE [count |-> n, ct |-> ct \ {a}, panic |-> ""]

\* OnOpened without its increment of the count.
OnOpenedNoIncrement(cnt, ct, a, overflowChecks) ==
    [count |-> cnt, ct |-> ct \cup {a}, panic |-> ""]

\* The Opened arm of ReporterActor::receive, up to its println!.
OnOpened(cnt, ct, a, overflowChecks) ==
    IF cnt = -1 /\ overflowChecks
    THEN [count |-> cnt, ct |-> ct, panic |-> "attempt to add with overflow"]
    ELSE [count |-> cnt + 1, ct |-> ct \cup {a}, panic |-> ""]

\* A line that shows the count as it was before the arm's update.
LogLineBeforeUpdate(ev, cnt) ==
    [line |-> IF ev.type = "Opened" THEN "new connection" ELSE "connection closed",
     count |-> IF ev.type = "Opened" THEN cnt - 1 ELSE cnt + 1,
     addr |-> ev.addr,
     detail |-> IF ev.type = "ClosedWithError" THEN Display(ev.err) ELSE <<>>]

\* The line an arm of ReporterActor::receive prints, with the count as it is
\* after the arm's update (the connected duration is not modelled).
LogLine(ev, cnt) ==
    CASE ev.type = "Opened" ->
           [line |-> "new connection", count |-> cnt, addr |-> ev.addr, detail |-> <<>>]
      [] ev.type = "ClosedGracefully" ->
           [line |-> "connection closed", count |-> cnt, addr |-> ev.addr, detail |-> <<>>]
      [] ev.type = "ClosedWithError" ->
           [line |-> "connection closed", count |-> cnt, addr |-> ev.addr,
            detail |-> Display(ev.err)]

\* ReporterActor::receive on one event: the state update of its arm, then the
\* arm's println! unless the update panicked.
Receive(ev, cnt, ct, lg, clockOk, overflowChecks) ==
    LET u == IF ev.type = "Opened"
             THEN OnOpened(cnt, ct, ev.addr, overflowChecks)
             ELSE OnSocketClosed(cnt, ct, ev.addr, clockOk, overflowChecks)
    IN [count |-> u.count, ct |-> u.ct, panic |-> u.panic,
        log |-> IF u.panic = "" THEN Append(lg, LogLine(ev, u.count)) ELSE lg]

\* An actor that goes on after a panic of receive.
AfterReceiveGoesOn(panic) == "running"

\* The actor's task after receive: it goes on, or it has unwound from the
\* panic (expect, or an overflow check) that receive raised.
AfterReceive(panic) == IF panic = "" THEN "running" ELSE "crashed"

\* A recv() that returns the newest event of the queue.
RecvEventNewest(q) == q[Len(q)]

\* recv() on a non-empty queue: the event it returns and the queue it leaves.
RecvEvent(q) == Head(q)
RecvRest(q) == Tail(q)

\* ReporterActor::run, one iteration on Some(event). A panic unwinds the task
\* and drops the actor with its receiver, and the queue's content with it.
ActorReceive ==
    /\ Alive
    /\ actorState = "running"
    /\ mailbox # <<>>
    /\ \E clockOk \in BOOLEAN, overflowChecks \in BOOLEAN :
         LET ev == RecvEvent(mailbox)
             r == Receive(ev, count, connected_time, log, clockOk, overflowChecks)
         IN /\ dequeued' = Append(dequeued, ev)
            /\ count' = r.count
            /\ connected_time' = r.ct
            /\ log' = r.log
            /\ panicMsg' = r.panic
            /\ actorState' = AfterReceive(r.panic)
            /\ mailbox' = IF r.panic = "" THEN RecvRest(mailbox) ELSE <<>>
    /\ UNCHANGED <<envVars, mainPc, handles, relayVars, stderr, enqueued>>

\* recv() returns None: every sender is dropped and the queue is empty.
RecvNone == handles = 0 /\ mailbox = <<>>

\* ReporterActor::run leaves its loop and returns.
ActorTerminate ==
    /\ Alive
    /\ actorState = "running"
    /\ RecvNone
    /\ actorState' = "terminated"
    /\ UNCHANGED <<envVars, mainPc, handles, relayVars, stderr, mailbox, panicMsg, count,
                   connected_time, log, enqueued, dequeued>>

\* ------------------------------------------------------------------ main
\* TcpListener::bind succeeds: proxy::run enters its accept loop.
BindOk ==
    /\ mainPc = "bind"
    /\ mainPc' = "accept"
    /\ UNCHANGED <<envVars, handles, relayVars, stderr, mailbox, actorVars, enqueued>>

\* TcpListener::bind fails: run returns the error (dropping its handle) and
\* main returns it through `?`; the process exits.
BindFail ==
    /\ mainPc = "bind"
    /\ mainPc' = "exitErr"
    /\ handles' = handles - 1
    /\ UNCHANGED <<envVars, relayVars, stderr, mailbox, actorVars, enqueued>>

\* The peer addresses accept() can return: the kernel gives no two live
\* sockets of the listener the same peer address, and an address is free
\* again once the socket that carried it is dropped.
CanAccept(a) == \A c \in Conns : incoming[c] = "open" => addr[c] # a

\* The next connection of the run.
NextConn == CHOOSE c \in Conns : pc[c] = "unborn" /\ \A b \in Conns : b < c => pc[b] # "unborn"

\* An accept loop that awaits the relay it has spawned before it accepts again.
AcceptAwaitsRelay ==
    /\ mainPc = "accept"
    /\ \A c \in Conns : pc[c] \in {"unborn", "done", "failed"}
    /\ connsLeft > 0
    /\ connsLeft' = connsLeft - 1
    /\ UNCHANGED <<bytesLeft, peers, failures>>
    /\ \E a \in peers :
         /\ CanAccept(a)
         /\ LET c == NextConn
            IN /\ pc' = [pc EXCEPT ![c] = "connect"]
               /\ addr' = [addr EXCEPT ![c] = a]
               /\ incoming' = [incoming EXCEPT ![c] = "open"]
    /\ handles' = handles + 1
    /\ UNCHANGED <<mainPc, outbound, leg, rd, wr, result, stderr,
                   mailbox, actorVars, enqueued>>

\* One iteration of the accept loop on Ok((incoming, socket_addr)): clone the
\* handle, spawn the relay.
Accept ==
    /\ mainPc = "accept"
    /\ connsLeft > 0
    /\ connsLeft' = connsLeft - 1
    /\ UNCHANGED <<bytesLeft, peers, failures>>
    /\ \E a \in peers :
         /\ CanAccept(a)
         /\ LET c == NextConn
            IN /\ pc' = [pc EXCEPT ![c] = "connect"]
               /\ addr' = [addr EXCEPT ![c] = a]
               /\ incoming' = [incoming EXCEPT ![c] = "open"]
    /\ handles' = handles + 1
    /\ UNCHANGED <<mainPc, outbound, leg, rd, wr, result, stderr,
                   mailbox, actorVars, enqueued>>

\* An accept loop that binds again after an error of accept().
AcceptErrRebinds ==
    /\ mainPc = "accept"
    /\ mainPc' = "bind"
    /\ UNCHANGED <<envVars, handles, relayVars, stderr, mailbox, actorVars, enqueued>>

\* accept() returns an error: the loop ends, run returns Ok(()) and drops its
\* handle; main goes on to join the reporter task.
AcceptErr ==
    /\ mainPc = "accept"
    /\ mainPc' = "join"
    /\ handles' = handles - 1
    /\ UNCHANGED <<envVars, relayVars, stderr, mailbox, actorVars, enqueued>>

\* tokio::join!(reporter_join_handle) resolves, with the task's return or
\* with its panic (let _ =); main returns Ok(()).
JoinDone ==
    /\ mainPc = "join"
    /\ actorState # "running"
    /\ mainPc' = "exitOk"
    /\ UNCHANGED <<envVars, handles, relayVars, stderr, mailbox, actorVars, enqueued>>

\* ------------------------------------------------------------- proxy.rs
\* The two futures of transfer once they are dropped, when transfer returns.
Dropped == [d \in Direction |-> "dropped"]

\* A handle_connection that reports Opened before it connects.
ConnectFailAfterOpened(c) ==
    /\ Alive
    /\ pc[c] = "connect"
    /\ pc' = [pc EXCEPT ![c] = "failed"]
    /\ addr' = [addr EXCEPT ![c] = "none"]
    /\ incoming' = [incoming EXCEPT ![c] = "dropped"]
    /\ stderr' = Append(stderr, addr[c])
    /\ handles' = handles - 1
    /\ mailbox' = Append(mailbox, Opened(addr[c]))
    /\ enqueued' = Append(enqueued, Opened(addr[c]))
    /\ UNCHANGED <<envVars, mainPc, outbound, leg, rd, wr, result, actorVars>>

\* handle_connection: TcpStream::connect fails, `?` returns the error; the
\* spawned task prints it and ends, dropping the inbound socket and its handle.
ConnectFail(c) ==
    /\ Alive
    /\ pc[c] = "connect"
    /\ pc' = [pc EXCEPT ![c] = "failed"]
    /\ addr' = [addr EXCEPT ![c] = "none"]
    /\ incoming' = [incoming EXCEPT ![c] = "dropped"]
    /\ stderr' = Append(stderr, addr[c])
    /\ handles' = handles - 1
    /\ UNCHANGED <<envVars, mainPc, outbound, leg, rd, wr, result, mailbox,
                   actorVars, enqueued>>

\* handle_connection: connect succeeds, Opened is reported, transfer starts.
ConnectOk(c) ==
    /\ Alive
    /\ pc[c] = "connect"
    /\ pc' = [pc EXCEPT ![c] = "transfer"]
    /\ outbound' = [outbound EXCEPT ![c] = "open"]
    /\ mailbox' = Send(mailbox, Opened(addr[c]))
    /\ enqueued' = Send(enqueued, Opened(addr[c]))
    /\ UNCHANGED <<envVars, mainPc, handles, addr, incoming, leg, rd, wr, result,
                   stderr, actorVars>>

\* tokio::io::copy of direction d reads a byte from the sending side.
CopyRead(r, b) == Append(r, b)

\* CopyWrite writing the newest byte read instead of the oldest unwritten one.
CopyWriteNewest(r, w) == Append(w, r[Len(r)])

\* tokio::io::copy of direction d writes its oldest unwritten byte, r being
\* the bytes read and w the bytes written so far.
CopyWrite(r, w) == Append(w, r[Len(w) + 1])

LegRead(c, d) ==
    /\ Alive
    /\ pc[c] = "transfer"
    /\ leg[c][d] = "copy"
    /\ bytesLeft > 0
    /\ \E b \in Bytes : rd' = [rd EXCEPT ![c][d] = CopyRead(@, b)]
    /\ bytesLeft' = bytesLeft - 1
    /\ UNCHANGED <<connsLeft, peers, failures>>
    /\ UNCHANGED <<mainPc, handles, pc, addr, incoming, outbound, leg, wr, result,
                   stderr, mailbox, actorVars, enqueued>>

LegWrite(c, d) ==
    /\ Alive
    /\ pc[c] = "transfer"
    /\ leg[c][d] # "shut"
    /\ Len(wr[c][d]) < Len(rd[c][d])
    /\ wr' = [wr EXCEPT ![c][d] = CopyWrite(rd[c][d], @)]
    /\ UNCHANGED <<envVars, mainPc, handles, pc, addr, incoming, outbound, leg, rd,
                   result, stderr, mailbox, actorVars, enqueued>>

\* The read of direction d returns 0 bytes: the sending side is at its end.
LegEof(c, d) ==
    /\ Alive
    /\ pc[c] = "transfer"
    /\ leg[c][d] = "copy"
    /\ leg' = [leg EXCEPT ![c][d] = "eof"]
    /\ UNCHANGED <<envVars, mainPc, handles, pc, addr, incoming, outbound, rd, wr,
                   result, stderr, mailbox, actorVars, enqueued>>

\* copy returns Ok once the end is read and everything read is written.
CopyDone(c, d) == leg[c][d] = "eof" /\ wr[c][d] = rd[c][d]

\* A join that resolves Ok as soon as one direction has returned Ok.
JoinOkEither(l) == \E d \in Direction : l[d] = "shut"

\* try_join! resolves Ok when both directions have returned Ok, l being the
\* states of the two directions.
JoinOk(l) == \A d \in Direction : l[d] = "shut"

\* A transfer that returns Ok and leaves the sockets with its caller.
LegShutdownKeepsSockets(c, d) ==
    /\ Alive
    /\ pc[c] = "transfer"
    /\ CopyDone(c, d)
    /\ LET l == [leg[c] EXCEPT ![d] = "shut"]
       IN IF JoinOk(l)
             THEN /\ leg' = [leg EXCEPT ![c] = Dropped]
                  /\ pc' = [pc EXCEPT ![c] = "closing"]
                  /\ result' = [result EXCEPT ![c] = Ok]
             ELSE /\ leg' = [leg EXCEPT ![c] = l]
                  /\ UNCHANGED <<pc, result>>
    /\ UNCHANGED <<envVars, mainPc, handles, addr, incoming, outbound, rd, wr, stderr,
                   mailbox, actorVars, enqueued>>

\* Direction d: copy has returned Ok and shutdown() of the receiving side's
\* write half succeeds. When the other direction is done too, try_join!
\* resolves, transfer returns Ok(()) and drops both sockets.
LegShutdown(c, d) ==
    /\ Alive
    /\ pc[c] = "transfer"
    /\ CopyDone(c, d)
    /\ LET l == [leg[c] EXCEPT ![d] = "shut"]
       IN IF JoinOk(l)
             THEN /\ leg' = [leg EXCEPT ![c] = Dropped]
                  /\ pc' = [pc EXCEPT ![c] = "closing"]
                  /\ result' = [result EXCEPT ![c] = Ok]
                  /\ incoming' = [incoming EXCEPT ![c] = "dropped"]
                  /\ outbound' = [outbound EXCEPT ![c] = "dropped"]
             ELSE /\ leg' = [leg EXCEPT ![c] = l]
                  /\ UNCHANGED <<pc, result, incoming, outbound>>
    /\ UNCHANGED <<envVars, mainPc, handles, addr, rd, wr, stderr, mailbox,
                   actorVars, enqueued>>

\* A join that waits for the other direction to finish before it resolves.
JoinErrWaits(l, d) == l[Other(d)] = "shut"

\* try_join! resolves Err as soon as one direction returns Err, whatever the
\* state l[Other(d)] of the other direction.
JoinErr(l, d) == TRUE

\* A map_io_error that names the other direction.
MapIoErrorOther(direction, err) ==
    SocketCloseError(IF direction = "ClientToServer" THEN "ServerToClient"
                     ELSE "ClientToServer", err)

\* map_io_error
MapIoError(direction, err) == SocketCloseError(direction, err)

\* A failure of direction d that also ends the accept loop.
LegFailEndsLoop(c, d) ==
    /\ Alive
    /\ pc[c] = "transfer"
    /\ leg[c][d] # "shut"
    /\ \E e \in failures : result' = [result EXCEPT ![c] = Err(MapIoError(d, e))]
    /\ pc' = [pc EXCEPT ![c] = "closing"]
    /\ leg' = [leg EXCEPT ![c] = Dropped]
    /\ incoming' = [incoming EXCEPT ![c] = "dropped"]
    /\ outbound' = [outbound EXCEPT ![c] = "dropped"]
    /\ mainPc' = "join"
    /\ UNCHANGED <<envVars, handles, addr, rd, wr, stderr, mailbox,
                   actorVars, enqueued>>

\* Direction d fails, in a read or a write of its copy or in its shutdown:
\* try_join! resolves with the error at once, the other direction is dropped
\* where it stands, transfer returns Err and drops both sockets.
LegFail(c, d) ==
    /\ Alive
    /\ pc[c] = "transfer"
    /\ leg[c][d] # "shut"
    /\ JoinErr(leg[c], d)
    /\ \E e \in failures : result' = [result EXCEPT ![c] = Err(MapIoError(d, e))]
    /\ pc' = [pc EXCEPT ![c] = "closing"]
    /\ leg' = [leg EXCEPT ![c] = Dropped]
    /\ incoming' = [incoming EXCEPT ![c] = "dropped"]
    /\ outbound' = [outbound EXCEPT ![c] = "dropped"]
    /\ UNCHANGED <<envVars, mainPc, handles, addr, rd, wr, stderr, mailbox,
                   actorVars, enqueued>>

\* The event handle_connection reports for transfer's result.
CloseEvent(a, res) ==
    IF IsError(res) THEN ClosedWithError(a, res[2]) ELSE ClosedGracefully(a)

\* handle_connection after transfer: report the close, return Ok(()); the
\* task ends and drops its handle.
ReportClose(c) ==
    /\ Alive
    /\ pc[c] = "closing"
    /\ pc' = [pc EXCEPT ![c] = "done"]
    /\ mailbox' = Send(mailbox, CloseEvent(addr[c], result[c]))
    /\ enqueued' = Send(enqueued, CloseEvent(addr[c], result[c]))
    /\ handles' = handles - 1
    /\ addr' = [addr EXCEPT ![c] = "none"]
    /\ result' = [result EXCEPT ![c] = NoResult]
    /\ rd' = [rd EXCEPT ![c] = [d \in Direction |-> <<>>]]
    /\ wr' = [wr EXCEPT ![c] = [d \in Direction |-> <<>>]]
    /\ UNCHANGED <<envVars, mainPc, incoming, outbound, leg, stderr, actorVars>>

\* ------------------------------------------------------------------ next
Relay(c) ==
    \/ ConnectFail(c)
    \/ ConnectOk(c)
    \/ \E d \in Direction : LegRead(c, d)
    \/ \E d \in Direction : LegWrite(c, d)
    \/ \E d \in Direction : LegEof(c, d)
    \/ \E d \in Direction : LegShutdown(c, d)
    \/ \E d \in Direction : LegFail(c, d)
    \/ ReportClose(c)

Next ==
    \/ BindOk
    \/ BindFail
    \/ Accept
    \/ AcceptErr
    \/ JoinDone
    \/ \E c \in Conns : Relay(c)
    \/ ActorReceive
    \/ ActorTerminate

Spec == Init /\ [][Next]_vars

\* The tokio scheduler runs every task that is ready: the actor when recv()
\* can return, a relay that has its transfer's result, main when the join
\* handle is ready. The steps that wait for the network have no fairness.
FairSpec ==
    /\ InitFair
    /\ [][Next]_vars
    /\ WF_vars(ActorReceive)
    /\ WF_vars(ActorTerminate)
    /\ WF_vars(JoinDone)
    /\ \A c \in Conns : WF_vars(ReportClose(c))

\* ---------------------------------------------------------------- claims
\* The events of address a among the events the actor has dequeued, in order.
EventsOf(a) == SelectSeq(dequeued, LAMBDA ev : ev.addr = a)

\* C1: for every peer address, the events of that address the actor dequeues
\* alternate Opened, Closed*, Opened, Closed*, ... starting with Opened: no
\* close before an open, no two closes in a row, no second Opened before the
\* close that matches the first.
C1_OpenedThenOneClose ==
    \A a \in Addrs :
        \A i \in 1..Len(EventsOf(a)) :
            IF i % 2 = 1 THEN EventsOf(a)[i].type = "Opened"
                         ELSE IsClose(EventsOf(a)[i])

\* C2: whenever no event is pending (the mailbox is empty; receive is one
\* step of the actor), the count is the number of entries of connected_time.
C2_CountIsMapSize ==
    (actorState # "crashed" /\ mailbox = <<>>) =>
        count = Cardinality(connected_time)

\* The relays that have reported Opened and not yet a Closed*.
OpenConns == {c \in Conns : pc[c] \in {"transfer", "closing"}}

\* The calls of ReporterHandle::report so far: one by a relay that is
\* transferring or closing, two by a relay that is done.
Reports ==
    Cardinality(OpenConns) + 2 * Cardinality({c \in Conns : pc[c] = "done"})

\* Every reported event has been processed: receive has printed its line.
AllProcessed == Len(log) = Reports

\* C3: once the actor has processed every reported event, its count is the
\* number of connections that have reported Opened and no Closed*; and the
\* count never goes below zero: the event the actor is about to take is
\* never a Closed* while the count is 0, so the decrement never wraps.
C3_CountIsOpenConns ==
    /\ AllProcessed => count = Cardinality(OpenConns)
    /\ count >= 0
    /\ (actorState = "running" /\ mailbox # <<>> /\ IsClose(Head(mailbox))) => count > 0

\* C3's case: two connections are open and counted, after a third has been
\* opened and closed.
C3_Witness ==
    /\ AllProcessed
    /\ Len(log) = 4
    /\ count = 2

\* ------------------------------------------------------------ C4: bytes
IsPrefix(p, q) == Len(p) <= Len(q) /\ SubSeq(q, 1, Len(p)) = p

\* C4: in every connection and each direction, the bytes written to the
\* receiving side are a prefix of the bytes read from the sending side; the
\* receiving side's write half is shut down only when everything read until
\* the end of input has been written, and transfer returns Ok only then.
C4_WrittenIsPrefixOfRead ==
    \A c \in Conns : \A d \in Direction :
        /\ IsPrefix(wr[c][d], rd[c][d])
        /\ leg[c][d] = "shut" => wr[c][d] = rd[c][d]
        /\ result[c] = Ok => wr[c][d] = rd[c][d]

\* C4's case: a direction has carried two different bytes to the end of input
\* and is shut down.
C4_Witness ==
    \E c \in Conns : \E d \in Direction :
        /\ leg[c][d] = "shut"
        /\ wr[c][d] = <<0, 1>>

\* ---------------------------------------------------- C5: failure and join
\* C5: a failure of either direction can resolve the join whatever the state
\* of the other direction; the step in which a direction fails ends the
\* transfer at once (both sockets dropped, nothing more written in either
\* direction), and from then on the relay's report of ClosedWithError is
\* enabled and no byte of the connection moves any more.
C5_FailureAbandonsOtherLeg ==
    /\ [](\A c \in Conns : \A d \in Direction :
            (Alive /\ pc[c] = "transfer" /\ leg[c][d] # "shut")
                => ENABLED LegFail(c, d))
    /\ [](\A c \in Conns :
            (Alive /\ pc[c] = "closing" /\ IsError(result[c]))
                => ENABLED ReportClose(c))
    /\ [][\A c \in Conns :
            /\ (pc[c] = "transfer" /\ IsError(result'[c])) =>
                 /\ pc'[c] = "closing"
                 /\ incoming'[c] = "dropped" /\ outbound'[c] = "dropped"
                 /\ rd'[c] = rd[c] /\ wr'[c] = wr[c]
            /\ (pc[c] = "closing" /\ IsError(result[c])) =>
                 \/ (pc'[c] = "closing" /\ rd'[c] = rd[c] /\ wr'[c] = wr[c])
                 \/ (pc'[c] = "done"
                     /\ Len(enqueued') = Len(enqueued) + (IF ReceiverAlive THEN 1 ELSE 0)
                     /\ ReceiverAlive =>
                          enqueued'[Len(enqueued')] = ClosedWithError(addr[c], result[c][2]))
       ]_vars

\* C5's case: a direction has failed and the transfer is over while the other
\* direction still holds a byte it has read and not written.
C5_Witness ==
    \E c \in Conns :
        /\ pc[c] = "closing"
        /\ IsError(result[c])
        /\ Len(wr[c][Other(result[c][2][1])]) < Len(rd[c][Other(result[c][2][1])])

\* ------------------------------------------------- C6: connect failure
\* The state of relay c.
RelayState(c) ==
    <<pc[c], addr[c], incoming[c], outbound[c], leg[c], rd[c], wr[c], result[c]>>

\* C6: the step in which a relay's outbound connect fails enqueues nothing,
\* leaves the actor's count, map and output and every other relay as they
\* are, and ends the relay's task: the relay takes no step afterwards.
C6_ConnectFailureIsSilent ==
    [][\A c \in Conns :
        /\ (pc[c] = "connect" /\ pc'[c] = "failed") =>
             /\ mailbox' = mailbox
             /\ enqueued' = enqueued
             /\ <<actorState, panicMsg, count, connected_time, log, dequeued>>'
                  = <<actorState, panicMsg, count, connected_time, log, dequeued>>
             /\ \A o \in Conns \ {c} : RelayState(o)' = RelayState(o)
        /\ pc[c] = "failed" => RelayState(c)' = RelayState(c)
      ]_vars

\* C6's case: a relay's connect has failed while another connection is open
\* and counted by the actor.
C6_Witness ==
    \E c \in Conns : \E o \in Conns :
        /\ pc[c] = "failed"
        /\ pc[o] = "transfer"
        /\ count = 1
        /\ enqueued = <<Opened(addr[o])>>

\* ---------------------------------------------------- C7: order of events
\* The line is the one printed for the event.
LineOf(line, ev) ==
    /\ line.addr = ev.addr
    /\ line.line = IF ev.type = "Opened" THEN "new connection" ELSE "connection closed"
    /\ (line.detail # <<>>) = (ev.type = "ClosedWithError")

\* C7: as long as the actor has not crashed, the events it has dequeued
\* followed by the events still in the mailbox are the events enqueued, in
\* their order, and the log holds exactly one line per dequeued event, in the
\* same order.
C7_FifoOneLinePerEvent ==
    actorState # "crashed" =>
        /\ dequeued \o mailbox = enqueued
        /\ Len(log) = Len(dequeued)
        /\ \A i \in 1..Len(log) : LineOf(log[i], dequeued[i])

\* C7's case: the actor has processed three events of two addresses, a close
\* with an error among them, while another event waits in the mailbox.
C7_Witness ==
    /\ actorState = "running"
    /\ Len(log) = 3
    /\ \E i, j \in 1..3 : log[i].addr # log[j].addr
    /\ \E i \in 1..3 : log[i].detail # <<>>
    /\ mailbox # <<>>

\* ------------------------------------------------ C8: the actor's end
\* The holders of a ReporterHandle: proxy::run until it returns, and every
\* relay whose task exists.
HandleHolders ==
    (IF mainPc \in {"bind", "accept"} THEN 1 ELSE 0)
    + Cardinality({c \in Conns : pc[c] \in {"connect", "transfer", "closing"}})

\* C8: the actor is terminated only when no handle is live (run has returned
\* and every relay's task has ended), the mailbox is empty and every event
\* enqueued has been processed; and under fair scheduling, once every handle
\* is dropped the actor reaches its terminal state.
C8_TerminatesWhenHandlesDropped ==
    /\ [](actorState = "terminated" =>
            /\ handles = 0
            /\ HandleHolders = 0
            /\ mailbox = <<>>
            /\ dequeued = enqueued
            /\ Len(log) = Len(enqueued))
    /\ ((Alive /\ handles = 0) ~> (actorState = "terminated"))

\* ----------------------------------------------------------- C9: report
\* The relay whose step reports an event.
ReportsOpened(c) == pc[c] = "connect" /\ pc'[c] = "transfer"
ReportsClose(c) == pc[c] = "closing" /\ pc'[c] = "done"

\* C9: report never blocks: a relay that has its transfer's result can
\* report and end whatever the mailbox holds and whatever the actor's state;
\* a report to an actor that is gone discards the event and the relay's step
\* is otherwise the same (a report to a live actor appends the event); and
\* the steps of a transfer do not wait for the actor.
C9_ReportNeverBlocks ==
    /\ [](\A c \in Conns :
            /\ (Alive /\ pc[c] = "closing") => ENABLED ReportClose(c)
            /\ (Alive /\ pc[c] = "connect") => ENABLED ConnectOk(c)
            /\ \A d \in Direction :
                 /\ (Alive /\ pc[c] = "transfer" /\ leg[c][d] = "copy")
                      => ENABLED LegEof(c, d)
                 /\ (Alive /\ pc[c] = "transfer" /\ leg[c][d] # "shut"
                           /\ Len(wr[c][d]) < Len(rd[c][d]))
                      => ENABLED LegWrite(c, d)
                 /\ (Alive /\ pc[c] = "transfer" /\ CopyDone(c, d))
                      => ENABLED LegShutdown(c, d))
    /\ [][\A c \in Conns :
            (ReportsOpened(c) \/ ReportsClose(c)) =>
                LET ev == IF ReportsOpened(c) THEN Opened(addr[c])
                          ELSE CloseEvent(addr[c], result[c])
                IN /\ mailbox' = IF actorState = "running"
                                 THEN Append(mailbox, ev) ELSE mailbox
                   /\ enqueued' = IF actorState = "running"
                                  THEN Append(enqueued, ev) ELSE enqueued
                   /\ ReportsClose(c) => handles' = handles - 1
       ]_vars

\* C9's case: the actor is gone after the events of one connection; a second
\* relay has reported its Opened to it, has forwarded a byte, and has a
\* graceful transfer's result to report.
C9_Witness ==
    /\ actorState = "crashed"
    /\ Len(enqueued) = 2
    /\ IsClose(enqueued[2])
    /\ \E c \in Conns :
         /\ pc[c] = "closing"
         /\ result[c] = Ok
         /\ \E d \in Direction : Len(wr[c][d]) > 0

\* ------------------------------------------- C10: close without an entry
\* C10: once the actor has processed a Closed* for an address that has no
\* entry in connected_time, it processes no event and prints no line any
\* more; the step in which it does so changes neither main nor any relay,
\* and afterwards the accept loop still accepts and the relays still read
\* and write.
C10_MissingEntryStopsActor ==
    /\ [][panicMsg = NoStartTime =>
            /\ <<actorState, panicMsg, count, connected_time, log, dequeued>>'
                 = <<actorState, panicMsg, count, connected_time, log, dequeued>>
            /\ mailbox = <<>> /\ mailbox' = <<>>
       ]_vars
    /\ [][(panicMsg # NoStartTime /\ panicMsg' = NoStartTime) =>
            /\ mainPc' = mainPc
            /\ handles' = handles
            /\ \A c \in Conns : RelayState(c)' = RelayState(c)
       ]_vars
    /\ [](panicMsg = NoStartTime /\ mainPc = "accept" =>
            /\ (connsLeft > 0 /\ \E a \in peers : CanAccept(a)) => ENABLED Accept
            /\ \A c \in Conns : \A d \in Direction :
                 /\ (pc[c] = "transfer" /\ leg[c][d] = "copy" /\ bytesLeft > 0)
                      => ENABLED LegRead(c, d)
                 /\ (pc[c] = "transfer" /\ leg[c][d] # "shut"
                           /\ Len(wr[c][d]) < Len(rd[c][d]))
                      => ENABLED LegWrite(c, d))

\* C10's case: the actor has panicked on a close without an entry; the accept
\* loop has since accepted a connection whose relay has reported Opened (the
\* event is discarded) and has forwarded a byte.
C10_Witness ==
    /\ panicMsg = NoStartTime
    /\ mainPc = "accept"
    /\ Reports > Len(enqueued)
    /\ \E c \in Conns :
         /\ pc[c] = "transfer"
         /\ \E d \in Direction : Len(wr[c][d]) > 0

\* ------------------------------------------- C11: the end of the accept loop
\* The accept loop has ended on an error of accept().
LoopEnded == mainPc \in {"join", "exitOk"}

\* C11: the step that leaves the accept loop goes to main's join and changes
\* no relay and no event; once the loop has ended it is never entered again,
\* nothing is bound again, no relay is spawned and no connection is taken
\* from the peers; and while main waits in its join, every relay spawned
\* earlier can still take its next step.
C11_AcceptLoopEndsAtFirstError ==
    /\ [][(mainPc = "accept" /\ mainPc' # "accept") =>
            /\ mainPc' = "join"
            /\ \A c \in Conns : RelayState(c)' = RelayState(c)
            /\ mailbox' = mailbox /\ enqueued' = enqueued
       ]_vars
    /\ [][LoopEnded =>
            /\ LoopEnded'
            /\ connsLeft' = connsLeft
            /\ \A c \in Conns : pc[c] = "unborn" => pc'[c] = "unborn"
       ]_vars
    /\ [](mainPc = "join" =>
            \A c \in Conns :
                /\ pc[c] = "connect" => ENABLED ConnectOk(c) /\ ENABLED ConnectFail(c)
                /\ pc[c] = "closing" => ENABLED ReportClose(c)
                /\ \A d \in Direction :
                     /\ (pc[c] = "transfer" /\ leg[c][d] = "copy" /\ bytesLeft > 0)
                          => ENABLED LegRead(c, d)
                     /\ (pc[c] = "transfer" /\ leg[c][d] # "shut"
                               /\ Len(wr[c][d]) < Len(rd[c][d]))
                          => ENABLED LegWrite(c, d)
                     /\ (pc[c] = "transfer" /\ CopyDone(c, d))
                          => ENABLED LegShutdown(c, d))

\* C11's case: the loop has ended while the peers would open more connections;
\* one relay spawned earlier has ended, another holds a byte it has read and
\* not yet written.
C11_Witness ==
    /\ mainPc = "join"
    /\ connsLeft > 0
    /\ \E c \in Conns : pc[c] = "done"
    /\ \E c \in Conns : \E d \in Direction :
         /\ pc[c] = "transfer"
         /\ Len(wr[c][d]) = 0
         /\ Len(rd[c][d]) = 1

\* ------------------------------------------------- C12: the process's exit
\* C12: the process exits with success only when the accept loop has ended
\* and the actor has terminated with the mailbox drained, every event
\* enqueued having been processed (dequeued, and its line printed); it exits
\* with an error only from a failed bind, no connection accepted and no event
\* processed.
C12_ExitAfterDrain ==
    /\ mainPc = "exitOk" =>
         /\ actorState = "terminated"
         /\ mailbox = <<>>
         /\ dequeued = enqueued
         /\ Len(log) = Len(enqueued)
    /\ mainPc = "exitErr" =>
         /\ \A c \in Conns : pc[c] = "unborn"
         /\ enqueued = <<>> /\ dequeued = <<>> /\ log = <<>>

\* ------------------------------------- C13: a transfer's failure is contained
\* Everything but relay c, the mailbox and the handle count is unchanged.
OnlyRelayActs(c) ==
    /\ \A o \in Conns \ {c} : RelayState(o)' = RelayState(o)
    /\ mainPc' = mainPc
    /\ stderr' = stderr
    /\ <<connsLeft, bytesLeft, peers, failures>>'
         = <<connsLeft, bytesLeft, peers, failures>>
    /\ <<actorState, panicMsg, count, connected_time, log, dequeued>>'
         = <<actorState, panicMsg, count, connected_time, log, dequeued>>

\* C13: the step in which a direction of relay c fails changes nothing but
\* relay c: no other relay's bytes, sockets or state, no event, not the
\* accept loop, not the actor. The relay's next and last step hands the
\* reporter the one ClosedWithError of its address and error, and again
\* changes nothing else; the relay takes no step afterwards.
C13_TransferFailureContained ==
    [][\A c \in Conns :
        /\ (pc[c] = "transfer" /\ IsError(result'[c])) =>
             /\ OnlyRelayActs(c)
             /\ handles' = handles
             /\ mailbox' = mailbox
             /\ enqueued' = enqueued
        /\ (pc[c] = "closing" /\ IsError(result[c]) /\ pc'[c] # "closing") =>
             /\ OnlyRelayActs(c)
             /\ pc'[c] = "done"
             /\ LET ev == ClosedWithError(addr[c], result[c][2])
                IN /\ mailbox' = IF actorState = "running"
                                 THEN Append(mailbox, ev) ELSE mailbox
                   /\ enqueued' = IF actorState = "running"
                                  THEN Append(enqueued, ev) ELSE enqueued
        /\ pc[c] = "done" => RelayState(c)' = RelayState(c)
      ]_vars

\* C13's case: a relay has ended after a failed transfer and its
\* ClosedWithError is enqueued, while the accept loop runs and a connection
\* of another address has carried a byte and is still open.
C13_Witness ==
    \E c \in Conns : \E o \in Conns :
        /\ pc[c] = "done"
        /\ pc[o] = "transfer"
        /\ mainPc = "accept"
        /\ \E d \in Direction : Len(wr[o][d]) > 0
        /\ \E i \in 1..Len(enqueued) :
             /\ enqueued[i].type = "ClosedWithError"
             /\ enqueued[i].addr # addr[o]

\* ------------------------------------------- C14: Display of a close error
\* C14: Display of SocketCloseError(direction, message) is the fixed prefix
\* followed by the message as it is, for both directions alike; and so is
\* the error text of every line the actor has printed for a ClosedWithError.
C14_DisplayIsPrefixThenMessage ==
    /\ \A d \in Direction : \A m \in IoErrors :
         /\ Display(SocketCloseError(d, m))
              = <<"Error while forwarding client traffic to the server: ", m>>
         /\ Display(SocketCloseError(d, m)) = Display(SocketCloseError(Other(d), m))
    /\ \A i \in 1..Len(log) :
         dequeued[i].type = "ClosedWithError" =>
             log[i].detail
               = <<"Error while forwarding client traffic to the server: ",
                   dequeued[i].err[2]>>

\* C14's case: the actor has printed the line of a failure of the
\* server-to-client direction whose description is "damn".
C14_Witness ==
    \E i \in 1..Len(log) :
        /\ dequeued[i].type = "ClosedWithError"
        /\ dequeued[i].err = SocketCloseError(ServerToClient, "damn")
        /\ log[i].detail # <<>>

\* ------------------------------------- C15: the direction of a close error
\* C15: the step that gives a transfer its error names a direction that was
\* still running (its copy or its shutdown had not returned), with a
\* description the failure can have; the error is not replaced by a later
\* failure before it is reported; the relay reports ClosedWithError with
\* exactly that error when the transfer's result is an error, and
\* ClosedGracefully when it is Ok, which it is only when both directions had
\* completed.
C15_ErrorNamesFailedLeg ==
    [][\A c \in Conns :
        /\ (pc[c] = "transfer" /\ IsError(result'[c])) =>
             /\ result[c] = NoResult
             /\ result'[c][2][1] \in Direction
             /\ leg[c][result'[c][2][1]] \in {"copy", "eof"}
             /\ result'[c][2][2] \in failures
        /\ (pc[c] = "transfer" /\ result'[c] = Ok) =>
             \A d \in Direction : leg[c][d] = "shut" \/ CopyDone(c, d)
        /\ (pc[c] = "closing" /\ pc'[c] = "closing") => result'[c] = result[c]
        /\ (ReportsClose(c) /\ ReceiverAlive) =>
             /\ Len(enqueued') = Len(enqueued) + 1
             /\ enqueued'[Len(enqueued')] =
                  IF result[c] = Ok THEN ClosedGracefully(addr[c])
                  ELSE ClosedWithError(addr[c], result[c][2])
             /\ result[c] # Ok => IsError(result[c])
      ]_vars

\* C15's case: one connection has been closed with an error of the
\* client-to-server direction, and the transfer of another has ended with an
\* error of the server-to-client direction.
C15_Witness ==
    /\ \E i \in 1..Len(enqueued) :
         /\ enqueued[i].type = "ClosedWithError"
         /\ enqueued[i].err[1] = ClientToServer
    /\ \E c \in Conns :
         /\ pc[c] = "closing"
         /\ IsError(result[c])
         /\ result[c][2][1] = ServerToClient

\* --------------------------------------- C16: the end of input on one side
\* C16: while one direction of a transferring connection has reached the end
\* of its input and shut down its write half, the connection goes on: both
\* sockets are held, the transfer has no result, and the other direction can
\* still read what its sender sends and write what it has read. The
\* transfer's result becomes Ok only in the step that shuts down the second
\* write half, both directions having read their end of input and written
\* everything; ClosedGracefully is enqueued only for such a result.
C16_EofDoesNotEndConnection ==
    /\ [](\A c \in Conns : \A d \in Direction :
            (pc[c] = "transfer" /\ leg[c][d] = "shut") =>
                /\ incoming[c] = "open" /\ outbound[c] = "open"
                /\ result[c] = NoResult
                /\ leg[c][Other(d)] \in {"copy", "eof"}
                /\ (Alive /\ leg[c][Other(d)] = "copy" /\ bytesLeft > 0)
                     => ENABLED LegRead(c, Other(d))
                /\ (Alive /\ Len(wr[c][Other(d)]) < Len(rd[c][Other(d)]))
                     => ENABLED LegWrite(c, Other(d)))
    /\ [][\A c \in Conns :
            /\ (pc[c] = "transfer" /\ result'[c] = Ok) =>
                 \E d \in Direction :
                     /\ leg[c][d] = "shut"
                     /\ leg[c][Other(d)] = "eof"
                     /\ wr[c][Other(d)] = rd[c][Other(d)]
            /\ (ReportsClose(c) /\ ReceiverAlive
                   /\ enqueued'[Len(enqueued')].type = "ClosedGracefully") =>
                 result[c] = Ok
       ]_vars

\* C16's case: the client-to-server direction is shut down after carrying
\* nothing, and the server-to-client direction has since written one byte of
\* the two it has read.
C16_Witness ==
    \E c \in Conns :
        /\ pc[c] = "transfer"
        /\ leg[c][ClientToServer] = "shut"
        /\ rd[c][ClientToServer] = <<>>
        /\ leg[c][ServerToClient] = "copy"
        /\ Len(rd[c][ServerToClient]) = 2
        /\ Len(wr[c][ServerToClient]) = 1

\* ------------------------------------ C17: the loop does not await a relay
\* The relays whose task is running.
Running == {c \in Conns : pc[c] \in {"connect", "transfer", "closing"}}

\* C17: whatever the relays spawned earlier are doing, the accept loop takes
\* the next connection a peer opens; the step spawns one relay, which starts
\* by connecting, with its own handle, and changes no other relay and leaves
\* the loop accepting.
C17_AcceptDoesNotAwaitRelays ==
    /\ []((mainPc = "accept" /\ connsLeft > 0 /\ \E a \in peers : CanAccept(a))
            => ENABLED Accept)
    /\ [][\A c \in Conns :
            (pc[c] = "unborn" /\ pc'[c] # "unborn") =>
                /\ mainPc = "accept" /\ mainPc' = "accept"
                /\ pc'[c] = "connect"
                /\ incoming'[c] = "open"
                /\ handles' = handles + 1
                /\ Running' = Running \cup {c}
                /\ \A o \in Conns \ {c} : RelayState(o)' = RelayState(o)
       ]_vars

\* C17's case: two relays run at once, one transferring with a byte it has
\* read and the other connecting.
C17_Witness ==
    /\ mainPc = "accept"
    /\ \E c \in Running : \E o \in Running :
         /\ pc[c] = "transfer"
         /\ \E d \in Direction : Len(rd[c][d]) > 0
         /\ pc[o] = "connect"

\* --------------------------- C18: the sockets are released before the close
\* C18: a relay that has its transfer's result holds neither of its sockets,
\* and the step in which it reports its Closed* event is taken with both
\* sockets already dropped; the sockets were dropped in the very step that
\* ended the transfer.
C18_SocketsReleasedBeforeClose ==
    /\ [](\A c \in Conns :
            pc[c] \in {"closing", "done"} =>
                incoming[c] = "dropped" /\ outbound[c] = "dropped")
    /\ [][\A c \in Conns :
            /\ ReportsClose(c) =>
                 /\ incoming[c] = "dropped" /\ outbound[c] = "dropped"
                 /\ ReceiverAlive => IsClose(enqueued'[Len(enqueued')])
            /\ (pc[c] = "transfer" /\ pc'[c] = "closing") =>
                 /\ incoming[c] = "open" /\ outbound[c] = "open"
                 /\ incoming'[c] = "dropped" /\ outbound'[c] = "dropped"
                 /\ enqueued' = enqueued
       ]_vars

\* C18's case: a relay whose transfer has ended gracefully after carrying a
\* byte has dropped its sockets and not yet reported the close, and the
\* accept loop has already accepted a new connection from its address.
C18_Witness ==
    \E c \in Conns : \E o \in Conns :
        /\ pc[c] = "closing"
        /\ result[c] = Ok
        /\ \E d \in Direction : Len(wr[c][d]) > 0
        /\ incoming[c] = "dropped" /\ outbound[c] = "dropped"
        /\ incoming[o] = "open"
        /\ addr[o] = addr[c]

\* ------------------------------------- C19: the exit after an accept error
\* C19: an error of accept takes main to its join, not to an exit with an
\* error; from the join the process can only exit with success; and when it
\* has exited with success no relay's task exists any more, no handle is
\* live and no socket of a connection is open.
C19_ExitsOkAfterRelaysEnd ==
    /\ [][(mainPc = "accept" /\ mainPc' # "accept") => mainPc' = "join"]_vars
    /\ [][mainPc = "join" => mainPc' \in {"join", "exitOk"}]_vars
    /\ [](mainPc = "exitOk" =>
            /\ Running = {}
            /\ handles = 0
            /\ \A c \in Conns : incoming[c] # "open" /\ outbound[c] # "open")

\* ------------------------------------------- C20: the count on a log line
\* The Opened and the Closed* events among the first i events dequeued.
OpenedUpTo(i) == Cardinality({j \in 1..i : dequeued[j].type = "Opened"})
ClosedUpTo(i) == Cardinality({j \in 1..i : IsClose(dequeued[j])})

\* C20: the count on the i-th line printed is the number of Opened events
\* minus the number of Closed* events among the first i events processed,
\* the i-th included; and the count of the last line printed is the actor's
\* count as long as the actor runs.
C20_LineShowsCountAfterEvent ==
    /\ \A i \in 1..Len(log) : log[i].count = OpenedUpTo(i) - ClosedUpTo(i)
    /\ (actorState # "crashed" /\ Len(log) > 0) => log[Len(log)].count = count

\* C20's case: the lines of two Opened events with no close between them
\* show 1 and 2, and the line of the close that follows shows 1.
C20_Witness ==
    /\ Len(log) >= 3
    /\ <<log[1].count, log[2].count, log[3].count>> = <<1, 2, 1>>
    /\ log[3].line = "connection closed"

====
